---- MODULE Spec2Model ----
(***************************************************************************)
(* xiaonet: a small computation-graph engine (src/xiaonet.py).             *)
(*                                                                         *)
(* The model keeps the graph of layers (Layer / Input / Hidden / Softmax / *)
(* CrossEntropy), the numpy arrays the layers and the caller hold (a heap  *)
(* of array objects, each with its shape and its contents), and the        *)
(* control state of topological_sort and train_SGD, one action per loop    *)
(* iteration.                                                              *)
(*                                                                         *)
(* Arrays.  An array object is [shape, val].  shape is the numpy shape, a  *)
(* sequence of naturals.  val is the contents as a term over the data the  *)
(* caller supplied: <<"data", id>> is caller data, <<"empty">> is what     *)
(* np.empty returns, and every numpy computation builds the term of its    *)
(* result from the terms of its operands.  Two arrays with the same term   *)
(* hold the same numbers.                                                  *)
(***************************************************************************)
EXTENDS Integers, Sequences, FiniteSets, TLC

\* ------------------------------------------------------------------ bounds

\* Largest number of layers the caller constructs.
MaxNodes == 4

\* Every dimension of a weight tensor is drawn from 1..MaxDim.
MaxDim == 2

\* Largest number of train_SGD calls the caller makes on one graph.
MaxCalls == 2

\* --------------------------------------------------------- numpy shapes

\* The result of a numpy operation on operands whose shapes do not fit.
ShapeError == <<-1>>

\* numpy.ndarray.shape of a[i]: the shape without its first axis.
RowShape(s) == Tail(s)

\* Whether a[i] is a valid index expression: a has an axis and i (counted
\* from 0) is below its length.
CanIndex(s, i) == Len(s) >= 1 /\ i < s[1]

\* s without its last axis.
Front(s) == SubSeq(s, 1, Len(s) - 1)

\* numpy.dot(a, b) on shapes: a scalar operand multiplies; otherwise the last
\* axis of a is summed against the only axis of b (b 1-D) or against the
\* second-to-last axis of b.
DotShape(a, b) ==
    IF a = ShapeError \/ b = ShapeError THEN ShapeError
    ELSE IF Len(a) = 0 THEN b
    ELSE IF Len(b) = 0 THEN a
    ELSE IF Len(b) = 1
         THEN IF a[Len(a)] = b[1] THEN Front(a) ELSE ShapeError
    ELSE IF a[Len(a)] = b[Len(b) - 1]
         THEN Front(a) \o SubSeq(b, 1, Len(b) - 2) \o <<b[Len(b)]>>
         ELSE ShapeError

\* numpy broadcasting of two shapes, aligned at the last axis.
RECURSIVE Broadcast(_, _)
Broadcast(a, b) ==
    IF a = ShapeError \/ b = ShapeError THEN ShapeError
    ELSE IF Len(a) = 0 THEN b
    ELSE IF Len(b) = 0 THEN a
    ELSE LET x == a[Len(a)]
             y == b[Len(b)]
             rest == Broadcast(Front(a), Front(b))
         IN  IF rest = ShapeError THEN ShapeError
             ELSE IF x = y \/ y = 1 THEN rest \o <<x>>
             ELSE IF x = 1 THEN rest \o <<y>>
             ELSE ShapeError

\* Leading axes of length 1 are dropped from a value assigned to a slot with
\* fewer axes.
RECURSIVE StripLeadingOnes(_, _)
StripLeadingOnes(src, n) ==
    IF Len(src) > n /\ src[1] = 1 THEN StripLeadingOnes(Tail(src), n) ELSE src

\* Whether `target[...] = src` is accepted: src broadcasts to the slot's shape.
CanAssign(target, src) ==
    /\ src # ShapeError
    /\ LET s == StripLeadingOnes(src, Len(target))
       IN  Len(s) <= Len(target) /\ Broadcast(target, s) = target

\* ------------------------------------------------------------------ state

VARIABLES
    pc,             \* where the caller's program is
    node,           \* the layers, in construction order: node[n] is layer n
    heap,           \* the numpy arrays: array id -> [shape, val]
    dims,           \* the sizes the caller builds the network with
    batchShape,     \* the shape of the data batch the caller feeds
    feed_dict,      \* train_SGD / topological_sort argument: Input -> batch
    trainables,     \* train_SGD argument: a list of arrays
    G,              \* topological_sort: the adjacency structure
    layers,         \* topological_sort: the traversal queue
    S,              \* topological_sort: the ready-set
    L,              \* topological_sort: the order built so far
    sorted_layers,  \* train_SGD: the order topological_sort returned
    idx,            \* position of the running loop (counted from 1)
    partials,       \* train_SGD: the harvested gradient arrays
    ret,            \* what the last completed call returned
    fault,          \* the exception that ended the program, or "none"
    calls,          \* completed train_SGD calls
    script,         \* what the caller is running: "train_SGD" or "forward_twice"
    pass,           \* forward_twice: the pass being run
    trace,          \* the method invocations of the running call, in order
    heap0,          \* the heap when the caller finished preparing its data
    roHeap,         \* the heap when the update loop of the running call began
    roLoss,         \* sorted_layers[-1].value when that loop began
    pass1,          \* forward_twice: the heap after the first pass
    callHeap        \* the heap when the running call was entered

vars == <<pc, node, heap, dims, batchShape, feed_dict, trainables, G, layers,
          S, L, sorted_layers, idx, partials, ret, fault, calls, script, pass,
          trace, heap0, roHeap, roLoss, pass1, callHeap>>

\* Python's None, for a layer reference and for an array reference.
NoLayer == 0
NoArray == <<>>

\* The id of attribute `attr` of layer n, when that attribute is an array.
Arr(attr, n) == <<attr, n>>

\* The target batch the caller passes as ideal_output.
IdealArray == <<"ideal", 0>>

\* Whether layer n has the array attribute (hasattr).
HasArr(hp, attr, n) == Arr(attr, n) \in DOMAIN hp

\* A fresh array: caller data, or an np.empty buffer.
DataArray(id, shape) == [shape |-> shape, val |-> <<"data", id>>]
EmptyArray(shape) == [shape |-> shape, val |-> <<"empty">>]

\* ----------------------------------------------------------- constructors

\* A variant that does not tell the predecessor about its new successor.
LayerInitMut(nd, kind, p) ==
    Append(nd, [kind |-> kind, input_layer |-> p, outbound_layers |-> <<>>,
                num_images |-> 0, num_features |-> 0, num_neurons |-> 0,
                num_classes |-> 0, X |-> NoArray, ideal_output |-> NoArray])

\* Layer.__init__: the new layer n gets its predecessor and an empty successor
\* list, and is appended to the predecessor's successor list.
LayerInit(nd, kind, p) ==
    LET n == Len(nd) + 1
        new == [kind |-> kind, input_layer |-> p, outbound_layers |-> <<>>,
                num_images |-> 0, num_features |-> 0, num_neurons |-> 0,
                num_classes |-> 0, X |-> NoArray, ideal_output |-> NoArray]
        wired == IF p # NoLayer
                 THEN [nd EXCEPT ![p].outbound_layers = Append(@, n)]
                 ELSE nd
    IN  Append(wired, new)

\* A variant that allocates gradients with the output width.
InputBuffersMut(w) ==
    [W_gradients |-> <<w[1], w[2]>>, b_gradients |-> <<w[1]>>,
     gradients |-> <<w[1], w[Len(w)]>>, value |-> <<w[1], w[Len(w)]>>]

\* The shapes of the buffers Input.__init__ allocates, from the weight shape.
InputBuffers(w) ==
    [W_gradients |-> <<w[1], w[2]>>, b_gradients |-> <<w[1]>>,
     gradients |-> <<w[1], w[2]>>, value |-> <<w[1], w[Len(w)]>>]

\* Input(weights, bias): the result is [node, heap, exc].
NewInput(nd, hp, w, b) ==
    LET n == Len(nd) + 1
        nd1 == LayerInit(nd, "Input", NoLayer)
        buf == InputBuffers(w)
    IN  [node |-> [nd1 EXCEPT ![n].num_neurons = w[Len(w)],
                              ![n].num_images = w[1],
                              ![n].num_features = w[2]],
         heap |-> hp @@ (Arr("W", n) :> DataArray(Arr("W", n), w))
                     @@ (Arr("biases", n) :> DataArray(Arr("biases", n), b))
                     @@ (Arr("W_gradients", n) :> EmptyArray(buf.W_gradients))
                     @@ (Arr("b_gradients", n) :> EmptyArray(buf.b_gradients))
                     @@ (Arr("gradients", n) :> EmptyArray(buf.gradients))
                     @@ (Arr("value", n) :> EmptyArray(buf.value)),
         exc |-> "none"]

\* Hidden(input_layer, weights, bias).  The predecessor must have num_neurons
\* (an Input); otherwise the constructor raises after the layer was wired and
\* its value buffer allocated.
NewHidden(nd, hp, p, w, b) ==
    LET n == Len(nd) + 1
        nd1 == LayerInit(nd, "Hidden", p)
        N == nd[p].num_images
        nd2 == [nd1 EXCEPT ![n].num_classes = w[Len(w)], ![n].num_images = N]
        hp1 == hp @@ (Arr("W", n) :> DataArray(Arr("W", n), w))
                  @@ (Arr("biases", n) :> DataArray(Arr("biases", n), b))
                  @@ (Arr("value", n) :> EmptyArray(<<N, w[Len(w)]>>))
    IN  IF nd[p].kind # "Input"
        THEN [node |-> nd2, heap |-> hp1, exc |-> "AttributeError"]
        ELSE [node |-> nd2,
              heap |-> hp1
                @@ (Arr("W_gradients", n) :> EmptyArray(<<N, nd[p].num_neurons>>))
                @@ (Arr("b_gradients", n) :> EmptyArray(<<N>>))
                @@ (Arr("gradients", n) :> EmptyArray(<<N, nd[p].num_neurons>>)),
              exc |-> "none"]

\* Whether layer p has the attribute num_classes (Hidden, Softmax and
\* CrossEntropy set it; Input does not).
HasNumClasses(nd, p) == nd[p].kind \in {"Hidden", "Softmax", "CrossEntropy"}

\* Softmax(input_layer).
NewSoftmax(nd, hp, p) ==
    LET n == Len(nd) + 1
        nd1 == LayerInit(nd, "Softmax", p)
        N == nd[p].num_images
        C == nd[p].num_classes
    IN  IF ~HasNumClasses(nd, p)
        THEN [node |-> nd1, heap |-> hp, exc |-> "AttributeError"]
        ELSE [node |-> [nd1 EXCEPT ![n].num_classes = C, ![n].num_images = N],
              heap |-> hp @@ (Arr("value", n) :> EmptyArray(<<N, C>>))
                          @@ (Arr("gradients", n) :> EmptyArray(<<N, C>>)),
              exc |-> "none"]

\* CrossEntropy(input_layer).
NewCrossEntropy(nd, hp, p) ==
    LET n == Len(nd) + 1
        nd1 == LayerInit(nd, "CrossEntropy", p)
        N == nd[p].num_images
        C == nd[p].num_classes
    IN  IF ~HasNumClasses(nd, p)
        THEN [node |-> nd1, heap |-> hp, exc |-> "AttributeError"]
        ELSE [node |-> [nd1 EXCEPT ![n].num_classes = C, ![n].num_images = N],
              heap |-> hp @@ (Arr("tmp_value", n) :> EmptyArray(<<N>>)),
              exc |-> "none"]

\* ------------------------------------------------------- the caller's data

\* The weight and bias shapes the caller gives Input and Hidden: one weight
\* matrix and one bias row per sample.
InputWShape(d) == <<d.N, d.F, d.K>>
InputBShape(d) == <<d.N, d.K>>
HiddenWShape(d) == <<d.N, d.K, d.C>>
HiddenBShape(d) == <<d.N, d.C>>

\* The sizes a network is built with.
AllDims == [N : 1..MaxDim, F : 1..MaxDim, K : 1..MaxDim, C : 1..MaxDim]

\* The batch shapes a caller may feed an Input declared (N, F): the declared
\* shape, one row more, one row fewer, one feature more, and a flat batch.
BatchShapes(d) ==
    {<<d.N, d.F>>, <<d.N + 1, d.F>>, <<d.N - 1, d.F>>, <<d.N, d.F + 1>>, <<d.N>>}

\* The elements of a set of layers as a list, in construction order.
RECURSIVE SeqOfSet(_)
SeqOfSet(s) ==
    IF s = {} THEN <<>>
    ELSE LET m == CHOOSE x \in s : \A y \in s : x <= y
         IN  <<m>> \o SeqOfSet(s \ {m})

\* The Input layers of the graph.
InputNodes(nd) == {n \in 1..Len(nd) : nd[n].kind = "Input"}

\* The weights and biases of the affine layers, in construction order.
RECURSIVE OwnParamsFrom(_, _)
OwnParamsFrom(nd, n) ==
    IF n > Len(nd) THEN <<>>
    ELSE (IF nd[n].kind \in {"Input", "Hidden"}
          THEN <<Arr("W", n), Arr("biases", n)>> ELSE <<>>)
         \o OwnParamsFrom(nd, n + 1)

OwnParams(nd) == OwnParamsFrom(nd, 1)

\* The batches of a feed, in construction order of their Input layers.
RECURSIVE BatchesOf(_)
BatchesOf(keys) ==
    IF keys = <<>> THEN <<>>
    ELSE <<Arr("batch", Head(keys))>> \o BatchesOf(Tail(keys))

\* The lists a caller passes as trainables: none, the layers' own parameters,
\* the arrays of the feed, and all of the caller's arrays.
TrainableLists(nd, keys) ==
    LET fed == BatchesOf(SeqOfSet(keys)) \o <<IdealArray>>
    IN  {<<>>, OwnParams(nd), fed, fed \o OwnParams(nd)}

\* ------------------------------------------------------------ construction

NoG == [n \in {} |-> 0]

NoHeap == [a \in {} |-> 0]

\* The state of a program that has built the layers nd with the arrays hp and
\* has called nothing.
Fresh(nd, hp, d, bs) ==
    /\ node = nd
    /\ heap = hp
    /\ dims = d
    /\ batchShape = bs
    /\ feed_dict = [n \in {} |-> 0]
    /\ trainables = <<>>
    /\ G = NoG
    /\ layers = <<>>
    /\ S = {}
    /\ L = <<>>
    /\ sorted_layers = <<>>
    /\ idx = 0
    /\ partials = <<>>
    /\ ret = <<>>
    /\ fault = "none"
    /\ calls = 0
    /\ script = "none"
    /\ pass = 0
    /\ trace = <<>>
    /\ heap0 = NoHeap
    /\ roHeap = NoHeap
    /\ roLoss = <<>>
    /\ pass1 = NoHeap
    /\ callHeap = NoHeap

callVars == <<feed_dict, trainables, G, layers, S, L, sorted_layers, idx,
              partials, ret, calls, script, pass, trace, heap0, roHeap,
              roLoss, pass1, callHeap>>

\* The caller constructs one more layer; a constructor that raises ends the
\* program.
Built(r) ==
    /\ node' = r.node
    /\ heap' = r.heap
    /\ fault' = r.exc
    /\ pc' = IF r.exc = "none" THEN "construct" ELSE "fault"
    /\ UNCHANGED <<dims, batchShape>>
    /\ UNCHANGED callVars

ConstructInput ==
    /\ pc = "construct"
    /\ Len(node) < MaxNodes
    /\ Built(NewInput(node, heap, InputWShape(dims), InputBShape(dims)))

ConstructHidden ==
    /\ pc = "construct"
    /\ Len(node) < MaxNodes
    /\ \E p \in 1..Len(node) :
          Built(NewHidden(node, heap, p, HiddenWShape(dims), HiddenBShape(dims)))

ConstructSoftmax ==
    /\ pc = "construct"
    /\ Len(node) < MaxNodes
    /\ \E p \in 1..Len(node) : Built(NewSoftmax(node, heap, p))

ConstructCrossEntropy ==
    /\ pc = "construct"
    /\ Len(node) < MaxNodes
    /\ \E p \in 1..Len(node) : Built(NewCrossEntropy(node, heap, p))

\* The caller prepares the arguments it will pass to every call: the feed
\* (a batch for each of some Input layers), the target, and the trainables.
PrepareData ==
    /\ pc \in {"construct", "rewired"}
    /\ Len(node) >= 1
    /\ \E keys \in SUBSET InputNodes(node) :
          /\ feed_dict' = [n \in keys |-> Arr("batch", n)]
          /\ heap' = [a \in {Arr("batch", n) : n \in keys} |->
                          DataArray(a, batchShape)]
                     @@ (IdealArray :> DataArray(IdealArray, <<dims.N, dims.C>>))
                     @@ heap
          /\ \E tr \in TrainableLists(node, keys) : trainables' = tr
    /\ heap0' = heap'
    /\ pc' = "idle"
    /\ UNCHANGED <<node, dims, batchShape, G, layers, S, L, sorted_layers, idx,
                   partials, ret, fault, calls, script, pass, trace, roHeap,
                   roLoss, pass1, callHeap>>

\* -------------------------------------------------------- topological_sort

Range(q) == {q[i] : i \in 1..Len(q)}

\* The traversal queue holds at most this many entries; a longer one is the
\* process running out of memory.
QueueCap == 2 * MaxNodes

\* One iteration of the first loop: pop n, enter it and its successors in G,
\* record the edges, queue the successors.
VisitLayer(nd, g, n) ==
    LET outs == Range(nd[n].outbound_layers)
        old(x) == IF x \in DOMAIN g THEN g[x] ELSE [in |-> {}, out |-> {}]
    IN  [x \in DOMAIN g \cup {n} \cup outs |->
            [in  |-> old(x).in \cup (IF x \in outs THEN {n} ELSE {}),
             out |-> old(x).out \cup (IF x = n THEN outs ELSE {})]]

\* A variant that readies a successor while it still has incoming edges.
NoIncomingMut(g, m) == g[m].in # {}

\* `len(G[m]['in']) == 0`
NoIncoming(g, m) == g[m].in = {}

\* The data injection of the second loop: an Input gets its batch through
\* _set, a CrossEntropy gets ideal_output.
Inject(nd, fd, n) ==
    IF nd[n].kind = "Input" THEN [nd EXCEPT ![n].X = fd[n]]
    ELSE IF nd[n].kind = "CrossEntropy"
         THEN [nd EXCEPT ![n].ideal_output = IdealArray]
    ELSE nd

InjectEvents(nd, n) ==
    IF nd[n].kind = "Input" THEN << <<"_set", n>> >>
    ELSE IF nd[n].kind = "CrossEntropy" THEN << <<"ideal_output", n>> >>
    ELSE <<>>

\* One iteration of the second loop for the layer n taken from S.  The result
\* is [exc, node, G, S, L, ev].  feed_dict[n] raises KeyError for an Input that is
\* not a key; a successor listed twice raises KeyError at its second removal.
KahnPop(nd, g, s, l, fd, n) ==
    LET outs == nd[n].outbound_layers
        outSet == Range(outs)
        g1 == [x \in DOMAIN g |->
                 [in  |-> IF x \in outSet THEN g[x].in \ {n} ELSE g[x].in,
                  out |-> IF x = n THEN g[x].out \ outSet ELSE g[x].out]]
        ready == {m \in outSet : NoIncoming(g1, m)}
    IN  IF nd[n].kind = "Input" /\ n \notin DOMAIN fd
        THEN [exc |-> "KeyError", node |-> nd, G |-> g, S |-> s \ {n}, L |-> l,
              ev |-> <<>>]
        ELSE [exc |-> IF Len(outs) # Cardinality(outSet) THEN "KeyError"
                      ELSE "none",
              node |-> Inject(nd, fd, n), G |-> g1,
              S |-> (s \ {n}) \cup ready, L |-> Append(l, n),
              ev |-> InjectEvents(nd, n)]

\* The program ends with exception e.
Raise(e) ==
    /\ pc' = "fault"
    /\ fault' = e

\* topological_sort is entered: input_layers, G and layers are set up.
EnterSort(who) ==
    /\ script' = who
    /\ layers' = SeqOfSet(DOMAIN feed_dict)
    /\ G' = NoG
    /\ S' = {}
    /\ L' = <<>>
    /\ sorted_layers' = <<>>
    /\ partials' = <<>>
    /\ idx' = 0
    /\ trace' = <<>>
    /\ roHeap' = NoHeap
    /\ callHeap' = heap
    /\ roLoss' = <<>>
    /\ pc' = "sort_build"
    /\ UNCHANGED <<node, heap, dims, batchShape, feed_dict, trainables, ret,
                   fault, calls, pass, heap0, pass1>>

\* The caller calls train_SGD(feed_dict, ideal_output, trainables).
CallTrainSGD ==
    /\ pc \in {"idle", "done"}
    /\ calls < MaxCalls
    /\ EnterSort("train_SGD")

\* The caller calls topological_sort itself, to run forward passes by hand.
CallTopologicalSort ==
    /\ pc = "idle"
    /\ EnterSort("forward_twice")

SortBuild ==
    /\ pc = "sort_build"
    /\ layers # <<>>
    /\ LET n == Head(layers)
           q == Tail(layers) \o node[n].outbound_layers
       IN  /\ G' = VisitLayer(node, G, n)
           /\ IF Len(q) > QueueCap
              THEN layers' = <<>> /\ Raise("MemoryError")
              ELSE layers' = q /\ UNCHANGED <<pc, fault>>
    /\ UNCHANGED <<node, heap, dims, batchShape, feed_dict, trainables, S, L,
                   sorted_layers, idx, partials, ret, calls, script, pass,
                   trace, heap0, roHeap, roLoss, pass1,
                   callHeap>>

SortBuildExit ==
    /\ pc = "sort_build"
    /\ layers = <<>>
    /\ S' = DOMAIN feed_dict
    /\ L' = <<>>
    /\ pc' = "sort_kahn"
    /\ UNCHANGED <<node, heap, dims, batchShape, feed_dict, trainables, G,
                   layers, sorted_layers, idx, partials, ret, fault, calls,
                   script, pass, trace, heap0, roHeap, roLoss, pass1,
                   callHeap>>

SortKahn ==
    /\ pc = "sort_kahn"
    /\ \E n \in S :
          LET r == KahnPop(node, G, S, L, feed_dict, n)
          IN  /\ node' = r.node
              /\ G' = r.G
              /\ S' = r.S
              /\ L' = r.L
              /\ trace' = trace \o r.ev
              /\ IF r.exc = "none" THEN UNCHANGED <<pc, fault>>
                 ELSE Raise(r.exc)
    /\ UNCHANGED <<heap, dims, batchShape, feed_dict, trainables, layers,
                   sorted_layers, idx, partials, ret, calls, script, pass,
                   heap0, roHeap, roLoss, pass1,
                   callHeap>>

\* topological_sort returns L; the caller goes on with its forward loop.
SortReturn ==
    /\ pc = "sort_kahn"
    /\ S = {}
    /\ sorted_layers' = L
    /\ idx' = 1
    /\ pass' = IF script = "forward_twice" THEN 1 ELSE pass
    /\ pc' = "forward"
    /\ UNCHANGED <<node, heap, dims, batchShape, feed_dict, trainables, G,
                   layers, S, L, partials, ret, fault, calls, script, trace,
                   heap0, roHeap, roLoss, pass1,
                   callHeap>>

\* ------------------------------------------------------ forward / backward

\* The number of rows of an array: the length of its first axis.
Rows(s) == IF Len(s) = 0 THEN 0 ELSE s[1]

Min2(a, b) == IF a <= b THEN a ELSE b

\* A loop `for i in range(N)` whose body reads row i of arrays that have
\* `avail` rows and, in row 0, raises rowExc ("none": it does not raise).
\* Every row has the same shapes, so a shape fault is raised in row 0 and an
\* index fault in the first row that is missing.  [exc, k]: k rows were done.
RowLoop(N, avail, rowExc) ==
    IF N = 0 THEN [exc |-> "none", k |-> 0]
    ELSE IF rowExc # "none" THEN [exc |-> rowExc, k |-> 0]
    ELSE IF avail < N THEN [exc |-> "IndexError", k |-> avail]
    ELSE [exc |-> "none", k |-> N]

\* The contents of a buffer of which k rows of N were overwritten.
PartialVal(k, N, new, old) ==
    IF k = 0 THEN old
    ELSE IF k >= N THEN new
    ELSE <<"rows", k, new, old>>

\* A variant that adds to what the buffer held: a hidden accumulation.
AffineTermMut(x, w, b, old) == <<"acc", old, x, w, b>>

\* value = X . W + biases, as a term.
AffineTerm(x, w, b, old) == <<"affine", x, w, b>>

\* The loop of Input.forward and Hidden.forward over the input array xid.
AffineForward(nd, hp, n, xid) ==
    LET xs == hp[xid].shape
        ws == hp[Arr("W", n)].shape
        bs == hp[Arr("biases", n)].shape
        vs == hp[Arr("value", n)].shape
        h == DotShape(RowShape(xs), RowShape(ws))
        rowExc ==
            IF Rows(xs) = 0 \/ Rows(ws) = 0 THEN "IndexError"
            ELSE IF h = ShapeError THEN "ValueError"
            ELSE IF Rows(bs) = 0 THEN "IndexError"
            ELSE IF ~CanAssign(RowShape(vs), Broadcast(h, RowShape(bs)))
                 THEN "ValueError"
            ELSE "none"
        N == nd[n].num_images
        r == RowLoop(N, Min2(Rows(xs), Min2(Rows(ws), Rows(bs))), rowExc)
        new == AffineTerm(hp[xid].val, hp[Arr("W", n)].val,
                          hp[Arr("biases", n)].val, hp[Arr("value", n)].val)
    IN  [exc |-> r.exc,
         heap |-> [hp EXCEPT ![Arr("value", n)].val =
                                 PartialVal(r.k, N, new, @)]]

\* Softmax.forward: value[i] = exp(x) / sum(exp(x), axis=0) of row i of the
\* predecessor's value.
SoftmaxForward(nd, hp, n) ==
    LET p == nd[n].input_layer
        xs == hp[Arr("value", p)].shape
        vs == hp[Arr("value", n)].shape
        x == RowShape(xs)
        rowExc ==
            IF Rows(xs) = 0 THEN "IndexError"
            ELSE IF Len(x) = 0 THEN "AxisError"
            ELSE IF ~CanAssign(RowShape(vs), Broadcast(x, Tail(x)))
                 THEN "ValueError"
            ELSE "none"
        N == nd[n].num_images
        r == RowLoop(N, Rows(xs), rowExc)
    IN  IF ~HasArr(hp, "value", p)
        THEN [exc |-> "AttributeError", heap |-> hp]
        ELSE [exc |-> r.exc,
              heap |-> [hp EXCEPT ![Arr("value", n)].val =
                          PartialVal(r.k, N, <<"softmax", hp[Arr("value", p)].val>>, @)]]

\* CrossEntropy.forward: tmp_value[i] = -sum(ideal_output[i] * log(softmax[i]))
\* and value = mean(tmp_value), a new scalar bound to the attribute.
CrossEntropyForward(nd, hp, n) ==
    LET p == nd[n].input_layer
        ss == hp[Arr("value", p)].shape
        ys == hp[nd[n].ideal_output].shape
        rowExc ==
            IF Rows(ys) = 0 \/ Rows(ss) = 0 THEN "IndexError"
            ELSE IF Broadcast(RowShape(ys), RowShape(ss)) = ShapeError
                 THEN "ValueError"
            ELSE "none"
        N == nd[n].num_images
        r == RowLoop(N, Min2(Rows(ys), Rows(ss)), rowExc)
        tmp == PartialVal(r.k, N,
                   <<"xent", hp[nd[n].ideal_output].val, hp[Arr("value", p)].val>>,
                   hp[Arr("tmp_value", n)].val)
        hp1 == [hp EXCEPT ![Arr("tmp_value", n)].val = tmp]
    IN  IF ~HasArr(hp, "value", p)
        THEN [exc |-> "AttributeError", heap |-> hp]
        ELSE IF nd[n].ideal_output = NoArray
        THEN [exc |-> "TypeError", heap |-> hp]
        ELSE IF r.exc # "none"
        THEN [exc |-> r.exc, heap |-> hp1]
        ELSE [exc |-> "none",
              heap |-> (Arr("value", n) :> [shape |-> <<>>, val |-> <<"mean", tmp>>])
                       @@ hp1]

\* n.forward(): [exc, node, heap].
Forward(nd, hp, n) ==
    LET k == nd[n].kind
        p == nd[n].input_layer
    IN  IF k = "Input"
        THEN IF nd[n].X = NoArray
             THEN [exc |-> "TypeError", node |-> nd, heap |-> hp]
             ELSE LET r == AffineForward(nd, hp, n, nd[n].X)
                  IN  [exc |-> r.exc, node |-> nd, heap |-> r.heap]
        ELSE IF k = "Hidden"
        THEN IF ~HasArr(hp, "value", p)
             THEN [exc |-> "AttributeError", node |-> nd, heap |-> hp]
             ELSE LET r == AffineForward(nd, hp, n, Arr("value", p))
                  IN  [exc |-> r.exc,
                       node |-> [nd EXCEPT ![n].X = Arr("value", p)],
                       heap |-> r.heap]
        ELSE IF k = "Softmax"
        THEN LET r == SoftmaxForward(nd, hp, n)
             IN  [exc |-> r.exc, node |-> nd, heap |-> r.heap]
        ELSE LET r == CrossEntropyForward(nd, hp, n)
             IN  [exc |-> r.exc, node |-> nd, heap |-> r.heap]

\* The loop of Input.backward and Hidden.backward: from the gradients of the
\* first successor, W_gradients[i] = W[i] . g[i], b_gradients[i] = g[i] .
\* biases[i], gradients[i] = W_gradients[i] * b_gradients[i].
AffineBackward(nd, hp, n) ==
    LET outs == nd[n].outbound_layers
        m == outs[1]
        gs == hp[Arr("gradients", m)].shape
        ws == hp[Arr("W", n)].shape
        bs == hp[Arr("biases", n)].shape
        wg == DotShape(RowShape(ws), RowShape(gs))
        bg == DotShape(RowShape(gs), RowShape(bs))
        wgRow == RowShape(hp[Arr("W_gradients", n)].shape)
        rowExc ==
            IF Rows(ws) = 0 \/ Rows(gs) = 0 THEN "IndexError"
            ELSE IF wg = ShapeError \/ ~CanAssign(wgRow, wg) THEN "ValueError"
            ELSE IF Rows(bs) = 0 THEN "IndexError"
            ELSE IF bg = ShapeError \/ ~CanAssign(<<>>, bg) THEN "ValueError"
            ELSE IF ~CanAssign(RowShape(hp[Arr("gradients", n)].shape), wgRow)
                 THEN "ValueError"
            ELSE "none"
        N == nd[n].num_images
        r == RowLoop(N, Min2(Rows(ws), Min2(Rows(gs), Rows(bs))), rowExc)
        gv == hp[Arr("gradients", m)].val
        newW == <<"dotW", hp[Arr("W", n)].val, gv>>
        newB == <<"dotb", gv, hp[Arr("biases", n)].val>>
    IN  IF outs = <<>>
        THEN [exc |-> "IndexError", heap |-> hp]
        ELSE IF ~HasArr(hp, "gradients", m)
        THEN [exc |-> "AttributeError", heap |-> hp]
        ELSE [exc |-> r.exc,
              heap |-> [hp EXCEPT
                  ![Arr("W_gradients", n)].val = PartialVal(r.k, N, newW, @),
                  ![Arr("b_gradients", n)].val = PartialVal(r.k, N, newB, @),
                  ![Arr("gradients", n)].val =
                      PartialVal(r.k, N, <<"mul", newW, newB>>, @)]]

\* Softmax.backward: gradients[i] = value[i].T, the row itself.
SoftmaxBackward(nd, hp, n) ==
    [exc |-> "none",
     heap |-> [hp EXCEPT ![Arr("gradients", n)].val = hp[Arr("value", n)].val]]

\* n.backward(): [exc, heap].  CrossEntropy.backward only sets gradient = None.
Backward(nd, hp, n) ==
    LET k == nd[n].kind
    IN  IF k \in {"Input", "Hidden"} THEN AffineBackward(nd, hp, n)
        ELSE IF k = "Softmax" THEN SoftmaxBackward(nd, hp, n)
        ELSE [exc |-> "none", heap |-> hp]

\* ---------------------------------------------------------------- train_SGD

\* A variant that keeps the order: the backward loop would run forwards.
ReversedMut(q) == q

\* sorted_layers[::-1]
RECURSIVE Reversed(_)
Reversed(q) == IF q = <<>> THEN <<>> ELSE Append(Reversed(Tail(q)), Head(q))

\* sorted_layers[0:-2]: all but the last two.
HarvestLayers(q) == IF Len(q) <= 2 THEN <<>> ELSE SubSeq(q, 1, Len(q) - 2)

\* The flattened (W_gradients, b_gradients) pairs of a list of layers.
RECURSIVE Flattened(_)
Flattened(q) ==
    IF q = <<>> THEN <<>>
    ELSE <<Arr("W_gradients", Head(q)), Arr("b_gradients", Head(q))>>
         \o Flattened(Tail(q))

\* A variant that updates whatever the shapes are.
ShapesMatchMut(hp, t, g) == TRUE

\* `trainables[n].shape == partials[n].shape`
ShapesMatch(hp, t, g) == hp[t].shape = hp[g].shape

\* trainables[n] -= learning_rate * partials[n], on the contents.
SgdTerm(t, g) == <<"sub", t, <<"mul", <<"learning_rate">>, g>>>>

\* sorted_layers[-1].value: [exc, val].
ReturnValue(sl, hp) ==
    IF sl = <<>> THEN [exc |-> "IndexError", val |-> <<>>]
    ELSE IF ~HasArr(hp, "value", sl[Len(sl)])
         THEN [exc |-> "AttributeError", val |-> <<>>]
    ELSE [exc |-> "none", val |-> hp[Arr("value", sl[Len(sl)])].val]

\* One n.forward() of the forward loop.
ForwardStep ==
    /\ pc = "forward"
    /\ idx <= Len(sorted_layers)
    /\ LET n == sorted_layers[idx]
           r == Forward(node, heap, n)
       IN  /\ node' = r.node
           /\ heap' = r.heap
           /\ trace' = Append(trace, <<"forward", n>>)
           /\ IF r.exc = "none"
              THEN idx' = idx + 1 /\ UNCHANGED <<pc, fault>>
              ELSE idx' = idx /\ Raise(r.exc)
    /\ UNCHANGED <<dims, batchShape, feed_dict, trainables, G, layers, S, L,
                   sorted_layers, partials, ret, calls, script, pass, heap0,
                   roHeap, roLoss, pass1,
                   callHeap>>

\* train_SGD: the forward loop is over, the backward loop begins.
ForwardExit ==
    /\ pc = "forward"
    /\ script = "train_SGD"
    /\ idx > Len(sorted_layers)
    /\ pc' = "backward"
    /\ idx' = 1
    /\ UNCHANGED <<node, heap, dims, batchShape, feed_dict, trainables, G,
                   layers, S, L, sorted_layers, partials, ret, fault, calls,
                   script, pass, trace, heap0, roHeap, roLoss, pass1,
                   callHeap>>

\* forward_twice: the first pass is over, the caller runs the same loop again.
SecondPass ==
    /\ pc = "forward"
    /\ script = "forward_twice"
    /\ idx > Len(sorted_layers)
    /\ pass = 1
    /\ pass' = 2
    /\ pass1' = heap
    /\ idx' = 1
    /\ UNCHANGED <<pc, node, heap, dims, batchShape, feed_dict, trainables, G,
                   layers, S, L, sorted_layers, partials, ret, fault, calls,
                   script, trace, heap0, roHeap, roLoss, callHeap>>

\* forward_twice: the second pass is over.
PassesDone ==
    /\ pc = "forward"
    /\ script = "forward_twice"
    /\ idx > Len(sorted_layers)
    /\ pass = 2
    /\ pc' = "passes_done"
    /\ UNCHANGED <<node, heap, dims, batchShape, feed_dict, trainables, G,
                   layers, S, L, sorted_layers, idx, partials, ret, fault,
                   calls, script, pass, trace, heap0, roHeap, roLoss, pass1,
                   callHeap>>

\* One n.backward() of the loop over reversed_layers.
BackwardStep ==
    /\ pc = "backward"
    /\ idx <= Len(sorted_layers)
    /\ LET n == Reversed(sorted_layers)[idx]
           r == Backward(node, heap, n)
       IN  /\ heap' = r.heap
           /\ trace' = Append(trace, <<"backward", n>>)
           /\ IF r.exc = "none"
              THEN idx' = idx + 1 /\ UNCHANGED <<pc, fault>>
              ELSE idx' = idx /\ Raise(r.exc)
    /\ UNCHANGED <<node, dims, batchShape, feed_dict, trainables, G, layers, S,
                   L, sorted_layers, partials, ret, calls, script, pass, heap0,
                   roHeap, roLoss, pass1,
                   callHeap>>

\* The backward loop is over: the gradients are harvested.  A layer without
\* W_gradients among sorted_layers[0:-2] raises AttributeError.
Harvest ==
    /\ pc = "backward"
    /\ idx > Len(sorted_layers)
    /\ LET ls == HarvestLayers(sorted_layers)
       IN  IF \E i \in 1..Len(ls) : ~HasArr(heap, "W_gradients", ls[i])
           THEN /\ Raise("AttributeError")
                /\ UNCHANGED <<partials, idx, roHeap, roLoss>>
           ELSE /\ partials' = Flattened(ls)
                /\ idx' = 1
                /\ roHeap' = heap
                /\ roLoss' = ReturnValue(sorted_layers, heap)
                /\ pc' = "update"
                /\ UNCHANGED fault
    /\ UNCHANGED <<node, heap, dims, batchShape, feed_dict, trainables, G,
                   layers, S, L, sorted_layers, ret, calls, script, pass,
                   trace, heap0, pass1,
                   callHeap>>

\* One iteration of the update loop, for position idx of trainables.
UpdateStep ==
    /\ pc = "update"
    /\ idx <= Len(trainables)
    /\ IF idx > Len(partials)
       THEN Raise("IndexError") /\ UNCHANGED <<heap, trace, idx>>
       ELSE /\ IF ShapesMatch(heap, trainables[idx], partials[idx])
               THEN /\ heap' = [heap EXCEPT ![trainables[idx]].val =
                                   SgdTerm(@, heap[partials[idx]].val)]
                    /\ trace' = Append(trace, <<"update", idx>>)
               ELSE UNCHANGED <<heap, trace>>
            /\ idx' = idx + 1
            /\ UNCHANGED <<pc, fault>>
    /\ UNCHANGED <<node, dims, batchShape, feed_dict, trainables, G, layers, S,
                   L, sorted_layers, partials, ret, calls, script, pass, heap0,
                   roHeap, roLoss, pass1,
                   callHeap>>

\* return sorted_layers[-1].value
Return ==
    /\ pc = "update"
    /\ idx > Len(trainables)
    /\ LET r == ReturnValue(sorted_layers, heap)
       IN  IF r.exc = "none"
           THEN /\ ret' = r.val
                /\ calls' = calls + 1
                /\ pc' = "done"
                /\ UNCHANGED fault
           ELSE Raise(r.exc) /\ UNCHANGED <<ret, calls>>
    /\ UNCHANGED <<node, heap, dims, batchShape, feed_dict, trainables, G,
                   layers, S, L, sorted_layers, idx, partials, script, pass,
                   trace, heap0, roHeap, roLoss, pass1,
                   callHeap>>

\* ---------------------------------------------------------- specifications

Construct ==
    \/ ConstructInput
    \/ ConstructHidden
    \/ ConstructSoftmax
    \/ ConstructCrossEntropy

\* train_SGD on the data the caller prepared.
Train ==
    \/ PrepareData
    \/ CallTrainSGD
    \/ SortBuild
    \/ SortBuildExit
    \/ SortKahn
    \/ SortReturn
    \/ ForwardStep
    \/ ForwardExit
    \/ BackwardStep
    \/ Harvest
    \/ UpdateStep
    \/ Return

\* The caller's own two forward passes over the order topological_sort
\* returned.
Passes ==
    \/ CallTopologicalSort
    \/ SecondPass
    \/ PassesDone

\* Any graph the constructors build, with every dimension MaxDim and the batch
\* shaped as declared.
GraphDims == [N |-> MaxDim, F |-> MaxDim, K |-> MaxDim, C |-> MaxDim]

Init ==
    /\ pc = "construct"
    /\ Fresh(<<>>, NoHeap, GraphDims, <<GraphDims.N, GraphDims.F>>)

Next == Construct \/ Train

Spec == Init /\ [][Next]_vars

\* The network the engine targets, Input -> Hidden -> Softmax -> CrossEntropy,
\* built with sizes d.
Chain(d) ==
    LET r1 == NewInput(<<>>, NoHeap, InputWShape(d), InputBShape(d))
        r2 == NewHidden(r1.node, r1.heap, 1, HiddenWShape(d), HiddenBShape(d))
        r3 == NewSoftmax(r2.node, r2.heap, 2)
    IN  NewCrossEntropy(r3.node, r3.heap, 3)

\* That network with any sizes, fed a batch of any of the shapes above.
InitShape ==
    /\ pc = "construct"
    /\ \E d \in AllDims : \E bs \in BatchShapes(d) :
          Fresh(Chain(d).node, Chain(d).heap, d, bs)

NextShape == Train \/ Passes

SpecShape == InitShape /\ [][NextShape]_vars

\* After constructing its layers the caller appends another layer m to the
\* successor list of layer n by hand, which the attributes of Layer allow.
Rewire ==
    /\ pc = "construct"
    /\ \E n \in 1..Len(node) : \E m \in (1..Len(node)) \ {n} :
          node' = [node EXCEPT ![n].outbound_layers = Append(@, m)]
    /\ pc' = "rewired"
    /\ UNCHANGED <<heap, dims, batchShape, fault>>
    /\ UNCHANGED callVars

\* The targeted network with every dimension MaxDim, before any rewiring.
InitCyc ==
    /\ pc = "construct"
    /\ Fresh(Chain(GraphDims).node, Chain(GraphDims).heap, GraphDims,
             <<GraphDims.N, GraphDims.F>>)

NextCyc == Train \/ Rewire

\* The program is sequential: it takes its next step whenever it has one.
SpecCyc == InitCyc /\ [][NextCyc]_vars /\ WF_vars(NextCyc)

\* ------------------------------------------------------------------ claims

\* The layers reachable from a set of layers along outbound_layers.
RECURSIVE ReachFrom(_, _)
ReachFrom(nd, set) ==
    LET nxt == set \cup UNION {Range(nd[n].outbound_layers) : n \in set}
    IN  IF nxt = set THEN set ELSE ReachFrom(nd, nxt)

\* topological_sort has returned to the running call.
SortReturned == pc \in {"forward", "backward", "update", "done", "passes_done"}

\* The layers without successors.
Sinks == {n \in 1..Len(node) : node[n].outbound_layers = <<>>}

\* The position of layer n in sorted_layers (0: absent).
PosIn(q, n) == IF \E i \in 1..Len(q) : q[i] = n
               THEN CHOOSE i \in 1..Len(q) : q[i] = n ELSE 0

\* C1: when the keys of feed_dict are exactly the Input layers of a graph the
\* constructors built (such a graph is acyclic; it may have one sink or
\* several), the list topological_sort returns holds every layer reachable
\* from the keys exactly once, and every layer with an input_layer comes after
\* that layer.
C1_Theorem ==
    (SortReturned /\ DOMAIN feed_dict = InputNodes(node)) =>
        /\ Range(sorted_layers) = ReachFrom(node, DOMAIN feed_dict)
        /\ Len(sorted_layers) = Cardinality(Range(sorted_layers))
        /\ \A i \in 1..Len(sorted_layers) :
              node[sorted_layers[i]].input_layer # NoLayer =>
                  LET j == PosIn(sorted_layers, node[sorted_layers[i]].input_layer)
                  IN  1 <= j /\ j < i

C1_Witness ==
    /\ SortReturned
    /\ DOMAIN feed_dict = InputNodes(node)
    /\ Cardinality(Sinks) = 1
    /\ Len(sorted_layers) = 4
    /\ node[sorted_layers[4]].kind = "CrossEntropy"

\* The layers of the events of one kind in the trace, in order.
EventLayers(kind) ==
    LET ev == SelectSeq(trace, LAMBDA e : e[1] = kind)
    IN  [i \in 1..Len(ev) |-> ev[i][2]]

Phase(e) ==
    IF e[1] \in {"_set", "ideal_output"} THEN 1
    ELSE IF e[1] = "forward" THEN 2
    ELSE IF e[1] = "backward" THEN 3
    ELSE 4

IsPrefix(a, b) == Len(a) <= Len(b) /\ SubSeq(b, 1, Len(a)) = a

UpdateEntered == script = "train_SGD" /\ roLoss # <<>>

\* Position n of trainables has a harvested gradient of the same shape.
Matched(n) ==
    /\ n <= Len(partials)
    /\ roHeap[trainables[n]].shape = roHeap[partials[n]].shape

\* C3: the harvested sequence is (W_gradients, b_gradients) of each layer of
\* the execution order but the last two, in forward order; every position n
\* of trainables the update loop has passed holds trainables[n] -
\* learning_rate * gradient n when the two shapes are equal and is unchanged
\* when they differ; and the loop raises only at a position that has no
\* harvested gradient, never for a difference of shapes.
C3_Theorem ==
    UpdateEntered =>
        /\ Len(partials) = 2 * (IF Len(sorted_layers) <= 2 THEN 0
                                ELSE Len(sorted_layers) - 2)
        /\ \A k \in 1..(Len(sorted_layers) - 2) :
              /\ partials[2 * k - 1] = Arr("W_gradients", sorted_layers[k])
              /\ partials[2 * k] = Arr("b_gradients", sorted_layers[k])
        /\ \A n \in 1..Len(trainables) :
              n < idx =>
                  IF Matched(n)
                  THEN heap[trainables[n]] =
                          [shape |-> roHeap[trainables[n]].shape,
                           val |-> <<"sub", roHeap[trainables[n]].val,
                                     <<"mul", <<"learning_rate">>,
                                       roHeap[partials[n]].val>>>>]
                  ELSE heap[trainables[n]] = roHeap[trainables[n]]
        /\ (pc = "fault" /\ idx <= Len(trainables)) => idx > Len(partials)

C3_Witness ==
    /\ UpdateEntered
    /\ pc = "done"
    /\ \E n \in 1..Len(trainables) : Matched(n)
    /\ \E n \in 1..Len(trainables) : ~Matched(n)

\* C5: after two train_SGD calls with the same feed and target, a non-zero
\* learning rate and the affine layers' own weights and biases as trainables,
\* at least one trainable array has changed.
C5_Claim ==
    (pc = "done" /\ calls = 2 /\ trainables = OwnParams(node)) =>
        \E n \in 1..Len(trainables) :
            heap[trainables[n]].val # heap0[trainables[n]].val

\* The weights and biases of the layers.
ParamArrays == Range(OwnParams(node))

\* The value a layer computes from the arrays of hp: the loss of the graph
\* when the layer is its CrossEntropy sink.
RECURSIVE ValueTerm(_, _)
ValueTerm(hp, n) ==
    LET p == node[n].input_layer
    IN  IF node[n].kind = "Input"
        THEN <<"affine", hp[feed_dict[n]].val, hp[Arr("W", n)].val,
               hp[Arr("biases", n)].val>>
        ELSE IF node[n].kind = "Hidden"
        THEN <<"affine", ValueTerm(hp, p), hp[Arr("W", n)].val,
               hp[Arr("biases", n)].val>>
        ELSE IF node[n].kind = "Softmax"
        THEN <<"softmax", ValueTerm(hp, p)>>
        ELSE <<"mean", <<"xent", hp[IdealArray].val, ValueTerm(hp, p)>>>>

\* Every position of trainables has a harvested gradient of another shape.
AllMismatched ==
    /\ trainables # <<>>
    /\ \A n \in 1..Len(trainables) : n <= Len(partials) /\ ~Matched(n)

\* C6: a completed train_SGD call whose trainables differ in shape from the
\* harvested gradient at every position returns the loss of the graph on the
\* arrays it was entered with, which is what a call with no trainables
\* returns, and changes no trainable array and no weight or bias.
C6_Theorem ==
    (UpdateEntered /\ pc = "done" /\ (AllMismatched \/ trainables = <<>>)) =>
        /\ ret = ValueTerm(callHeap, sorted_layers[Len(sorted_layers)])
        /\ ret = roLoss.val
        /\ \A a \in Range(trainables) \cup ParamArrays : heap[a] = callHeap[a]

C6_Witness ==
    /\ UpdateEntered
    /\ pc = "done"
    /\ trainables = OwnParams(node)
    /\ Len(trainables) = 4
    /\ AllMismatched

\* C7: a call fed a batch whose shape is not the Input's declared
\* (num_images, num_features) does not complete: the mismatch is reported.
C7_Claim ==
    pc = "done" =>
        \A n \in DOMAIN feed_dict :
            heap[feed_dict[n]].shape = <<node[n].num_images, node[n].num_features>>

\* C8: running forward() on every layer in execution order a second time, with
\* no backward() and no update in between, leaves every layer's value as the
\* first pass left it.
C8_Theorem ==
    pc = "passes_done" =>
        \A n \in Range(sorted_layers) :
            heap[Arr("value", n)] = pass1[Arr("value", n)]

C8_Witness ==
    /\ pc = "passes_done"
    /\ {node[n].kind : n \in Range(sorted_layers)} =
          {"Input", "Hidden", "Softmax", "CrossEntropy"}

\* The affine layers that were constructed.
AffineNodes == {n \in 1..Len(node) : node[n].kind \in {"Input", "Hidden"}}

\* The output width of an affine layer: the last dimension of W.
OutDim(n) == heap[Arr("W", n)].shape[Len(heap[Arr("W", n)].shape)]

\* The input width of an affine layer: num_features of an Input, the
\* predecessor's num_neurons of a Hidden.
InDim(n) ==
    IF node[n].kind = "Input" THEN node[n].num_features
    ELSE node[node[n].input_layer].num_neurons

\* C9 as claimed: value and gradients of every affine layer both have shape
\* (num_images, out_dim).
C9_Claim ==
    \A n \in AffineNodes :
        /\ heap[Arr("value", n)].shape = <<node[n].num_images, OutDim(n)>>
        /\ heap[Arr("gradients", n)].shape = <<node[n].num_images, OutDim(n)>>

\* C9 as amended: in every state, value of an affine layer has shape
\* (num_images, out_dim) and gradients has shape (num_images, in_dim).
C9_Theorem ==
    \A n \in AffineNodes :
        /\ heap[Arr("value", n)].shape = <<node[n].num_images, OutDim(n)>>
        /\ heap[Arr("gradients", n)].shape = <<node[n].num_images, InDim(n)>>

C9_Witness ==
    /\ pc = "done"
    /\ dims.F # dims.K
    /\ dims.K # dims.C
    /\ AffineNodes = {1, 2}

\* How often layer m occurs in a successor list.
RECURSIVE Count(_, _)
Count(q, m) ==
    IF q = <<>> THEN 0
    ELSE (IF Head(q) = m THEN 1 ELSE 0) + Count(Tail(q), m)

\* The edges of the graph as the layers hold them.
Edges == [n \in 1..Len(node) |->
            [input_layer |-> node[n].input_layer,
             outbound_layers |-> node[n].outbound_layers]]

EdgesSymmetric ==
    \A n \in 1..Len(node) : \A m \in 1..Len(node) :
        Count(node[n].outbound_layers, m) =
            IF node[m].input_layer = n THEN 1 ELSE 0

\* C10: m is in n.outbound_layers exactly when m.input_layer is n, once; and
\* after construction no step of the scheduler or of the driver changes any
\* layer's input_layer or outbound_layers.
C10_Theorem ==
    /\ []EdgesSymmetric
    /\ [][pc # "construct" => Edges' = Edges]_vars

C10_Witness ==
    /\ pc = "done"
    /\ calls = 2
    /\ Len(node) = 4
    /\ \E n \in 1..Len(node) : Len(node[n].outbound_layers) = 2

\* A cycle can be reached from the keys of feed_dict.
CycleReachable ==
    \E n \in ReachFrom(node, DOMAIN feed_dict) :
        n \in ReachFrom(node, Range(node[n].outbound_layers))

\* C4: a call on a graph with a reachable cycle is aborted with a fault
\* before forward() or backward() has run on any layer.
C4_Claim ==
    (pc = "sort_build" /\ CycleReachable) ~>
        (pc = "fault" /\ EventLayers("forward") = <<>>
                      /\ EventLayers("backward") = <<>>)

====
